---- MODULE Spec2Model ----
(***************************************************************************)
(* Model of claude-proxy-minimal (src/server.js): start-up credential      *)
(* resolution, the in-memory token cache, and the chat-completion request  *)
(* handler run by several concurrent requests of one Node.js process.      *)
(* A handler runs atomically between two awaits; each await is a step      *)
(* boundary at which other handlers and the clock may move.                *)
(***************************************************************************)
EXTENDS Integers, Sequences, FiniteSets, TLC

(***************************************************************************)
(* Bounds of the model.                                                    *)
(***************************************************************************)
NumHandlers == 2        \* concurrent request handlers
MaxAdvance == 2         \* clock range, in ticks of 25 minutes
MaxTokens == 2          \* distinct access tokens the credential endpoint mints
NumCallers == 3         \* concurrent callers of getAuthToken in the refresh specification

Handlers == 1..NumHandlers
Callers == 1..NumCallers

(***************************************************************************)
(* Program constants.                                                      *)
(***************************************************************************)
BufferMs == 300000                  \* the 5-minute refresh margin
ExpiryMs == 55 * 60 * 1000          \* the 55-minute estimated lifetime
DefaultModel == "claude-sonnet-4"
CloudPlatformScope == "https://www.googleapis.com/auth/cloud-platform"
ProjectId == "gen-lang-client-0465895437"

\* null / undefined / "" of a token: every falsy token value
NoToken == 0

(***************************************************************************)
(* Configuration values (process.env.GOOGLE_SERVICE_ACCOUNT_JSON).         *)
(* A value is absent, or a string given by its transport encoding and the  *)
(* text it carries.  Texts:                                                *)
(*   sa_object    {"type":"service_account",...}                           *)
(*   user_object  {"type":"authorized_user",...}                           *)
(*   null         the JSON text null                                       *)
(*   number       a JSON number such as 1234                               *)
(*   sa_ctrl      a service-account object with a raw control character    *)
(*                inside a string literal (not valid JSON)                 *)
(*   garbage      text that is not JSON                                    *)
(*   empty        the empty string                                         *)
(***************************************************************************)
Texts == {"sa_object", "user_object", "null", "number", "sa_ctrl", "garbage", "empty"}

Str(enc, text, ev) == [present |-> TRUE, enc |-> enc, text |-> text, ev |-> ev]
Absent == [present |-> FALSE, enc |-> "plain", text |-> "empty", ev |-> FALSE]

\* the values the environment may hold; ev marks the "EV[1:" prefix of an
\* encrypted placeholder
ConfigValues ==
    {Absent}
    \cup {Str("plain", t, FALSE) : t \in Texts}
    \cup {Str("base64", t, FALSE) : t \in Texts \ {"empty"}}
    \cup {Str("plain", "garbage", TRUE)}

\* JSON values, reduced to what initializeGoogleAuth reads of them
ParseError == [ok |-> FALSE, truthy |-> FALSE, type |-> "undefined", origin |-> "none"]
JsonValue(truthy, type, origin) == [ok |-> TRUE, truthy |-> truthy, type |-> type, origin |-> origin]

\* JSON.parse of a string: only plain text that is valid JSON parses
JSONParse(s, origin) ==
    IF s.enc # "plain" THEN ParseError
    ELSE CASE s.text = "sa_object" -> JsonValue(TRUE, "service_account", origin)
           [] s.text = "user_object" -> JsonValue(TRUE, "authorized_user", origin)
           [] s.text = "null" -> JsonValue(FALSE, "undefined", origin)
           [] s.text = "number" -> JsonValue(TRUE, "undefined", origin)
           [] OTHER -> ParseError

\* Buffer.from(s, 'base64').toString('utf-8'): never throws; a base64 string
\* decodes to the text it carries, anything else to bytes that are not JSON
Base64Decode(s) ==
    IF s.enc = "base64" THEN Str("plain", s.text, FALSE)
    ELSE Str("plain", IF s.text = "empty" THEN "empty" ELSE "garbage", FALSE)

\* the embedded string: its decoded text holds the bytes 0x18 and 0x09 inside
\* the private_key string literal, which JSON.parse rejects
\* (variant: an embedded string whose decoded text parses)
fallbackServiceAccountParsed == Str("base64", "sa_object", FALSE)
fallbackServiceAccount == Str("base64", "sa_ctrl", FALSE)


(***************************************************************************)
(* State.                                                                  *)
(***************************************************************************)
VARIABLES
    phase,          \* "starting", "initialized", "listening", "exited"
    exitCode,       \* process exit code once exited, -1 before
    config,         \* process.env.GOOGLE_SERVICE_ACCOUNT_JSON
    tried,          \* history: the parses initializeGoogleAuth attempted, in order
    googleAuth,     \* the signing-client handle (let googleAuth)
    authCache,      \* the in-memory token cache
    clock,          \* Date.now()
    issued,         \* tokens the credential endpoint has minted so far
    req,            \* per handler: position and locals of its request
    lastStore,      \* history: the latest store into authCache still in force
    invalidated     \* history: a backend 401 cleared the cache and no
                    \* getAuthToken call has started since

vars == <<phase, exitCode, config, tried, googleAuth, authCache, clock, issued, req, lastStore, invalidated>>

StartTime == ExpiryMs
\* the step by which the clock moves: 25 minutes, half the time a stored
\* token is served from the cache
Tick == (ExpiryMs - BufferMs) \div 2
MaxClock == StartTime + MaxAdvance * Tick

(***************************************************************************)
(* Credential provider: initializeGoogleAuth.                              *)
(***************************************************************************)
NoAuth == [set |-> FALSE, source |-> "none", scopes |-> "", projectId |-> ""]

\* new GoogleAuth({credentials, scopes, projectId}); source records which
\* credential the client signs with ("adc": no credentials option)
GoogleAuth(source) ==
    [set |-> TRUE, source |-> source, scopes |-> CloudPlatformScope, projectId |-> ProjectId]

\* one parse attempt: the strategy and the value it produced
Attempt(strategy, value) == [strategy |-> strategy, value |-> value]

\* Strategies 1 and 2 on the configured string: direct parse, and only when
\* that throws, base64 decode then parse
\* (variant: base64 decode then parse first, direct parse when that throws)
ConfiguredAttemptsBase64First(s) ==
    LET decoded == JSONParse(Base64Decode(s), "configured")
    IN IF decoded.ok
       THEN <<Attempt("base64", decoded)>>
       ELSE <<Attempt("base64", decoded), Attempt("direct", JSONParse(s, "configured"))>>
ConfiguredAttempts(s) ==
    LET direct == JSONParse(s, "configured")
    IN IF direct.ok
       THEN <<Attempt("direct", direct)>>
       ELSE <<Attempt("direct", direct),
              Attempt("base64", JSONParse(Base64Decode(s), "configured"))>>

\* credentials after the two strategies: the value of the last attempt
ParseConfigured(s) == ConfiguredAttempts(s)[Len(ConfiguredAttempts(s))].value

\* the guard of the configured branch
ConfigAttempted(cfg) == cfg.present /\ cfg.text # "empty" /\ ~cfg.ev

\* success && credentials && credentials.type === 'service_account'
UsableCredentials(c) == c.ok /\ c.truthy /\ c.type = "service_account"

\* the embedded credential the fallback branch parses
FallbackCredentials == JSONParse(Base64Decode(fallbackServiceAccount), "hardcoded")

\* The outcome of initializeGoogleAuth on configuration cfg; ctorThrows is
\* the set of GoogleAuth constructor calls that throw.
\* threw: the function rethrew to startServer; auth: the value of googleAuth.
InitOutcome(cfg, ctorThrows) ==
    IF ConfigAttempted(cfg) /\ UsableCredentials(ParseConfigured(cfg))
    THEN IF "configured" \in ctorThrows
         THEN [threw |-> TRUE, auth |-> NoAuth]
         ELSE [threw |-> FALSE, auth |-> GoogleAuth("configured")]
    ELSE IF FallbackCredentials.ok /\ "hardcoded" \notin ctorThrows
         THEN [threw |-> FALSE, auth |-> GoogleAuth("hardcoded")]
         ELSE IF "adc" \in ctorThrows
              THEN [threw |-> TRUE, auth |-> NoAuth]
              ELSE [threw |-> FALSE, auth |-> GoogleAuth("adc")]

\* the parses a run of initializeGoogleAuth on cfg attempts, in order: the
\* strategies on the configured string, then the embedded credential when
\* the fallback branch is reached
InitAttempts(cfg) ==
    LET configured == IF ConfigAttempted(cfg) THEN ConfiguredAttempts(cfg) ELSE <<>>
    IN IF ConfigAttempted(cfg) /\ UsableCredentials(ParseConfigured(cfg))
       THEN configured
       ELSE Append(configured, Attempt("hardcoded", FallbackCredentials))

CtorCalls == {"configured", "hardcoded", "adc"}


(***************************************************************************)
(* Start-up: startServer.                                                  *)
(***************************************************************************)
\* await initializeGoogleAuth(): sets googleAuth, or rethrows to startServer
initializeGoogleAuth(ctorThrows) ==
    LET out == InitOutcome(config, ctorThrows)
    IN /\ phase = "starting"
       /\ googleAuth' = out.auth
       /\ tried' = InitAttempts(config)
       /\ phase' = IF out.threw THEN "failed" ELSE "initialized"
       /\ UNCHANGED <<exitCode, config, authCache, clock, issued, req, lastStore, invalidated>>

\* the phase in which startServer reaches app.listen
\* (variant: initializeGoogleAuth is not awaited)
ListenPhaseEarly == {"starting", "initialized"}
ListenPhase == {"initialized"}

\* app.listen(PORT, '0.0.0.0', ...)
Listen ==
    /\ phase \in ListenPhase
    /\ phase' = "listening"
    /\ UNCHANGED <<exitCode, config, tried, googleAuth, authCache, clock, issued, req, lastStore, invalidated>>

\* startServer().catch(error => process.exit(1))
ExitOnFailure ==
    /\ phase = "failed"
    /\ phase' = "exited"
    /\ exitCode' = 1
    /\ UNCHANGED <<config, tried, googleAuth, authCache, clock, issued, req, lastStore, invalidated>>

\* time passes
Advance ==
    /\ phase # "exited"
    /\ clock + Tick <= MaxClock
    /\ clock' = clock + Tick
    /\ UNCHANGED <<phase, exitCode, config, tried, googleAuth, authCache, issued, req, lastStore, invalidated>>

(***************************************************************************)
(* Token cache: authCache and getAuthToken.                                *)
(***************************************************************************)
\* let authCache = { token: null, expiry: 0 }, and the state after a 401
EmptyCache == [token |-> NoToken, expiry |-> 0]

\* authCache.token && now < (authCache.expiry - 300000)
\* (variant: the 5-minute buffer left out)
CacheHitNoBuffer(cache, now) == cache.token # NoToken /\ now < cache.expiry
CacheHit(cache, now) == cache.token # NoToken /\ now < cache.expiry - BufferMs

\* authCache.token = accessToken.token; authCache.expiry = now + 55 minutes,
\* now being the time the call captured when it started
\* (variant: an expiry already in the cache is kept when it is the later one)
StoreTokenKeepLaterExpiry(tok, now) ==
    [token |-> tok,
     expiry |-> IF authCache.expiry > now + ExpiryMs THEN authCache.expiry ELSE now + ExpiryMs]
\* (variant: the expiry counts from the time the fetch completed)
StoreTokenAtCompletion(tok, now) == [token |-> tok, expiry |-> clock + ExpiryMs]
StoreToken(tok, now) == [token |-> tok, expiry |-> now + ExpiryMs]

\* if (accessToken.token) ... else throw: only a truthy token is stored
TokenReceived(tok) == tok # NoToken

(***************************************************************************)
(* Model resolver: MODEL_MAP[model] || 'claude-sonnet-4'.                  *)
(***************************************************************************)
MODEL_MAP ==
    [k \in {"claude-opus-4-1", "claude-sonnet-4", "claude-3-7-sonnet",
            "claude-4-1-opus", "claude-opus-4.1", "claude-4-sonnet",
            "claude-sonnet-4.0", "claude-3.7-sonnet", "claude-sonnet-3.7",
            "gpt-4", "gpt-4-turbo"} |->
        CASE k \in {"claude-opus-4-1", "claude-4-1-opus", "claude-opus-4.1"} -> "claude-opus-4-1"
          [] k \in {"claude-3-7-sonnet", "claude-3.7-sonnet", "claude-sonnet-3.7"} -> "claude-3-7-sonnet"
          [] OTHER -> "claude-sonnet-4"]

\* MODEL_MAP is an object literal: a property read that finds no own key
\* continues in Object.prototype, whose members are functions or objects
ObjectPrototypeKeys == {"constructor", "toString", "__proto__"}

\* what the template literal of the backend URL prints for such a member
InheritedMember(k) ==
    CASE k = "constructor" -> "function Object() { [native code] }"
      [] k = "toString" -> "function toString() { [native code] }"
      [] OTHER -> "[object Object]"

\* the request's model when the body carries none
UndefinedModel == "undefined"

\* const claudeModel = MODEL_MAP[model] || 'claude-sonnet-4'
Resolve(model) ==
    IF model \in DOMAIN MODEL_MAP THEN MODEL_MAP[model]
    ELSE IF model \in ObjectPrototypeKeys THEN InheritedMember(model)
    ELSE DefaultModel


(***************************************************************************)
(* Request handler: app.post('/v1/chat/completions').                      *)
(***************************************************************************)
\* req.body.messages by its kind: a missing field, a string, an object that
\* is no array, an array
MessageKinds == {"absent", "string", "object", "array"}
Truthy(messages) == messages # "absent"
IsArray(messages) == messages = "array"

\* the request passes  if (!messages || !Array.isArray(messages)) return 400
\* (variant: the Array.isArray test left out)
ValidMessagesTruthyOnly(messages) == Truthy(messages)
ValidMessages(messages) == Truthy(messages) /\ IsArray(messages)

\* HTTP status carried by a thrown error (error.response?.status); 0 when the
\* error has no response: a network failure, a timeout, a TypeError
NoStatus == 0
ErrStatuses == {NoStatus, 401, 503}

\* an optional number of a JSON body: the field is missing, or a number
None == [present |-> FALSE, value |-> 0]
Some(v) == [present |-> TRUE, value |-> v]

\* an optional string of a JSON body
NoText == [present |-> FALSE, value |-> ""]
Text(t) == [present |-> TRUE, value |-> t]

\* const { max_tokens = 4096 } = req.body: the default applies to a missing
\* field
DefaultMaxTokens == 4096
MaxTokensCeiling == 8192
Requested(max_tokens) == IF max_tokens.present THEN max_tokens.value ELSE DefaultMaxTokens

\* Math.min on two numbers
MathMin(a, b) == IF a < b THEN a ELSE b

\* vertexPayload: anthropic_version and max_tokens: Math.min(max_tokens, 8192)
\* (variant: the requested value passed on as it is)
NoPayload == [anthropic_version |-> "", max_tokens |-> 0]
VertexPayloadUnclamped(max_tokens) ==
    [anthropic_version |-> "vertex-2023-10-16", max_tokens |-> Requested(max_tokens)]
VertexPayload(max_tokens) ==
    [anthropic_version |-> "vertex-2023-10-16",
     max_tokens |-> MathMin(Requested(max_tokens), MaxTokensCeiling)]

\* vertexUrl, by the parts the template string is built from
Endpoint == "us-east5-aiplatform.googleapis.com"
Location == "us-east5"
NoUrl == <<>>
VertexUrl(claudeModel) ==
    <<"https://", Endpoint, "/v1/projects/", ProjectId, "/locations/", Location,
      "/publishers/anthropic/models/", claudeModel, ":rawPredict">>

\* response.data of the backend (claudeResponse): content is missing or a
\* list of blocks, a block has a text or none (a tool_use block); usage is
\* missing or an object whose counters may be missing
TextBlock(t) == [text |-> Text(t)]
OtherBlock == [text |-> NoText]
NoContent == [present |-> FALSE, blocks |-> <<>>]
Blocks(bs) == [present |-> TRUE, blocks |-> bs]
NoUsage == [present |-> FALSE, input_tokens |-> None, output_tokens |-> None]
Usage(i, o) == [present |-> TRUE, input_tokens |-> i, output_tokens |-> o]

NoResponse == [content |-> NoContent, usage |-> NoUsage]

\* claudeResponse.content?.[0]?.text
FirstText(content) ==
    IF content.present /\ Len(content.blocks) > 0 THEN content.blocks[1].text ELSE NoText

\* text || 'No response generated': undefined and "" are falsy
\* (variant: the first block is not looked at)
Placeholder == "No response generated"
ContentOfPlaceholderOnly(content) == Placeholder
ContentOf(content) ==
    LET t == FirstText(content)
    IN IF t.present /\ t.value # "" THEN t.value ELSE Placeholder

\* claudeResponse.usage?.input_tokens || 0: a missing counter and 0 are falsy
OrZero(c) == IF c.present /\ c.value # 0 THEN c.value ELSE 0

\* the usage object of the reply
\* (variant: total_tokens leaves the completion tokens out)
ZeroUsage == [prompt_tokens |-> 0, completion_tokens |-> 0, total_tokens |-> 0]
UsageOfPromptOnly(usage) ==
    [prompt_tokens |-> OrZero(usage.input_tokens),
     completion_tokens |-> OrZero(usage.output_tokens),
     total_tokens |-> OrZero(usage.input_tokens)]
UsageOf(usage) ==
    [prompt_tokens |-> OrZero(usage.input_tokens),
     completion_tokens |-> OrZero(usage.output_tokens),
     total_tokens |-> OrZero(usage.input_tokens) + OrZero(usage.output_tokens)]

\* reply bodies
NoBody ==
    [shape |-> "none", type |-> "", code |-> 0, model |-> "", role |-> "",
     content |-> "", usage |-> ZeroUsage]
\* { error: 'Invalid messages format' }
InvalidMessagesBody == [NoBody EXCEPT !.shape = "error_string"]
\* { error: { message, type: 'proxy_error', code: error.response?.status || 500 } }
\* (variant: the code field fixed at 500)
ErrorEnvelopeFixedCode(err) ==
    [NoBody EXCEPT !.shape = "error_object", !.type = "proxy_error", !.code = 500]
ErrorEnvelope(err) ==
    [NoBody EXCEPT !.shape = "error_object", !.type = "proxy_error",
                   !.code = IF err # NoStatus THEN err ELSE 500]

IdleReq ==
    [pc |-> "idle", messages |-> "none", model |-> "", max_tokens |-> None,
     claudeModel |-> "", url |-> NoUrl, payload |-> NoPayload,
     now |-> 0, token |-> NoToken, fetches |-> 0, calls |-> 0, replies |-> 0,
     failure |-> "none", err |-> NoStatus, claudeResponse |-> NoResponse,
     status |-> 0, body |-> NoBody]

\* openaiResponse: the chat.completion reply to the request rec, built from
\* the backend's response; model echoes the request's model
\* (variant: model carries the backend's model name)
OpenAIResponseBackendName(rec, claudeResponse) ==
    [NoBody EXCEPT !.shape = "completion", !.model = rec.claudeModel, !.role = "assistant",
                   !.content = ContentOf(claudeResponse.content),
                   !.usage = UsageOf(claudeResponse.usage)]
OpenAIResponse(rec, claudeResponse) ==
    [NoBody EXCEPT !.shape = "completion", !.model = rec.model, !.role = "assistant",
                   !.content = ContentOf(claudeResponse.content),
                   !.usage = UsageOf(claudeResponse.usage)]

\* the cache after the catch block has seen an error of status err
\* (variant: the expiry is not reset)
CatchCacheKeepExpiry(cache, err) == IF err = 401 THEN [cache EXCEPT !.token = NoToken] ELSE cache
CatchCache(cache, err) == IF err = 401 THEN EmptyCache ELSE cache

\* the request after the catch block: res.status(500).json({error: {...}});
\* the locals of the try block (token, now) are out of scope
\* (variant: a catch block that sends no reply)
CaughtNoReply(rec, failure, err) ==
    [rec EXCEPT !.pc = "done", !.failure = failure, !.err = err, !.now = 0, !.token = NoToken]
Caught(rec, failure, err) ==
    [rec EXCEPT !.pc = "done", !.failure = failure, !.err = err, !.now = 0,
                !.token = NoToken, !.status = 500, !.body = ErrorEnvelope(err),
                !.replies = @ + 1]

\* the position of a request whose backend call failed, after the catch block
\* (variant: a 401 sends the request back to fetch a token and call again)
AfterBackendFailureRetry(rec, err) ==
    IF err = 401
    THEN [rec EXCEPT !.pc = "awaitToken", !.fetches = @ + 1, !.token = NoToken]
    ELSE Caught(rec, "backend", err)
AfterBackendFailure(rec, err) == Caught(rec, "backend", err)

\* with the token in hand: build vertexPayload (messages.map throws on an
\* element that is null), then axios.post
AfterToken(rec, wellFormed) ==
    IF wellFormed
    THEN [rec EXCEPT !.pc = "awaitBackend", !.now = 0,
                     !.payload = VertexPayload(rec.max_tokens),
                     !.url = VertexUrl(rec.claudeModel), !.calls = @ + 1]
    ELSE Caught(rec, "translation", NoStatus)

\* getAuthToken past the cache check: the call sets out to fetch a token
\* (variant: a call that finds a fetch in flight waits for it instead of
\* fetching itself)
StartFetchShared(rec, now) ==
    IF \E q \in DOMAIN req : req[q].pc = "awaitToken"
    THEN [rec EXCEPT !.pc = "awaitToken", !.now = now]
    ELSE [rec EXCEPT !.pc = "awaitToken", !.now = now, !.fetches = @ + 1]
StartFetch(rec, now) == [rec EXCEPT !.pc = "awaitToken", !.now = now, !.fetches = @ + 1]

\* history of the cache
NoStore == [tok |-> NoToken, started |-> 0, at |-> 0, live |-> FALSE]
AfterCatch(err) == IF err = 401 THEN NoStore ELSE lastStore

\* A request arrives and runs to its first await: validation, model
\* resolution, and getAuthToken up to the cache check.
Receive(r, messages, model, max_tokens, wellFormed) ==
    /\ phase = "listening"
    /\ req[r].pc = "idle"
    /\ LET rec == [IdleReq EXCEPT !.messages = messages, !.model = model,
                                  !.max_tokens = max_tokens]
           resolved == [rec EXCEPT !.claudeModel = Resolve(model)]
       IN IF ~ValidMessages(messages)
          THEN /\ req' = [req EXCEPT ![r] =
                            [rec EXCEPT !.pc = "done", !.failure = "validation",
                                        !.status = 400, !.body = InvalidMessagesBody,
                                        !.replies = @ + 1]]
               /\ UNCHANGED invalidated
          ELSE /\ invalidated' = FALSE
               /\ IF CacheHit(authCache, clock)
                  THEN req' = [req EXCEPT ![r] =
                                 AfterToken([resolved EXCEPT !.token = authCache.token], wellFormed)]
                  ELSE req' = [req EXCEPT ![r] = StartFetch(resolved, clock)]
    /\ UNCHANGED <<phase, exitCode, config, tried, googleAuth, authCache, clock, issued, lastStore>>

\* what client.getAccessToken() may resolve with: nothing, the token the
\* library minted last, or a new one
TokenResults == {NoToken} \cup {t \in 1..MaxTokens : issued <= t /\ t <= issued + 1}

\* googleAuth.getClient() and client.getAccessToken() resolve
TokenFetched(r, tok, wellFormed) ==
    /\ phase = "listening"
    /\ req[r].pc = "awaitToken"
    /\ tok \in TokenResults
    /\ issued' = IF tok > issued THEN tok ELSE issued
    /\ IF TokenReceived(tok)
       THEN /\ authCache' = StoreToken(tok, req[r].now)
            /\ lastStore' = [tok |-> tok, started |-> req[r].now, at |-> clock, live |-> TRUE]
            /\ req' = [req EXCEPT ![r] = AfterToken([req[r] EXCEPT !.token = tok], wellFormed)]
       ELSE /\ req' = [req EXCEPT ![r] = Caught(req[r], "credential", NoStatus)]
            /\ UNCHANGED <<authCache, lastStore>>
    /\ UNCHANGED <<phase, exitCode, config, tried, googleAuth, clock, invalidated>>

\* googleAuth.getClient() or client.getAccessToken() rejects; the error may
\* carry the HTTP response of the token endpoint (err) or none, and the
\* handler's catch block reads error.response?.status of whatever it caught
TokenFetchFailed(r, err) ==
    /\ phase = "listening"
    /\ req[r].pc = "awaitToken"
    /\ req' = [req EXCEPT ![r] = Caught(req[r], "credential", err)]
    /\ authCache' = CatchCache(authCache, err)
    /\ lastStore' = AfterCatch(err)
    /\ UNCHANGED <<phase, exitCode, config, tried, googleAuth, clock, issued, invalidated>>

\* axios.post resolves with a 2xx response whose data is claudeResponse
BackendReplied(r, claudeResponse) ==
    /\ phase = "listening"
    /\ req[r].pc = "awaitBackend"
    /\ req' = [req EXCEPT ![r] =
                 [req[r] EXCEPT !.pc = "done", !.token = NoToken, !.status = 200,
                                !.claudeResponse = claudeResponse,
                                !.body = OpenAIResponse(req[r], claudeResponse),
                                !.replies = @ + 1]]
    /\ UNCHANGED <<phase, exitCode, config, tried, googleAuth, authCache, clock, issued, lastStore, invalidated>>

\* axios.post rejects: an error status, a network failure or the timeout
BackendFailed(r, err) ==
    /\ phase = "listening"
    /\ req[r].pc = "awaitBackend"
    /\ req' = [req EXCEPT ![r] = AfterBackendFailure(req[r], err)]
    /\ authCache' = CatchCache(authCache, err)
    /\ lastStore' = AfterCatch(err)
    /\ invalidated' = IF err = 401 THEN TRUE ELSE invalidated
    /\ UNCHANGED <<phase, exitCode, config, tried, googleAuth, clock, issued>>

\* the reply has been sent; the handler slot serves the next request
Finish(r) ==
    /\ phase = "listening"
    /\ req[r].pc = "done"
    /\ req' = [req EXCEPT ![r] = IdleReq]
    /\ UNCHANGED <<phase, exitCode, config, tried, googleAuth, authCache, clock, issued, lastStore, invalidated>>

(***************************************************************************)
(* Specification of the server.                                            *)
(***************************************************************************)
\* the model names requests carry
RequestModels == {"claude-4-sonnet"}

\* the max_tokens requests carry, and the backend's responses
RequestMaxTokens == {None}
ServerResponses == {[content |-> Blocks(<<TextBlock("Hello")>>), usage |-> Usage(Some(12), Some(7))]}

\* the configurations the server is started with
ServerConfigs == {Absent}

InitWith(configs) ==
    /\ phase = "starting"
    /\ exitCode = -1
    /\ config \in configs
    /\ tried = <<>>
    /\ googleAuth = NoAuth
    /\ authCache = EmptyCache
    /\ clock = StartTime
    /\ issued = 0
    /\ req = [r \in Handlers |-> IdleReq]
    /\ lastStore = NoStore
    /\ invalidated = FALSE

Init == InitWith(ServerConfigs)

Startup ==
    \/ \E ctorThrows \in SUBSET CtorCalls : initializeGoogleAuth(ctorThrows)
    \/ Listen
    \/ ExitOnFailure

\* the steps of the request handlers
Serve ==
    \/ \E r \in Handlers, m \in MessageKinds, model \in RequestModels,
          mt \in RequestMaxTokens, w \in BOOLEAN :
          Receive(r, m, model, mt, w)
    \/ \E r \in Handlers, tok \in 0..MaxTokens, w \in BOOLEAN : TokenFetched(r, tok, w)
    \/ \E r \in Handlers, err \in ErrStatuses : TokenFetchFailed(r, err)
    \/ \E r \in Handlers, resp \in ServerResponses : BackendReplied(r, resp)
    \/ \E r \in Handlers, err \in ErrStatuses : BackendFailed(r, err)
    \/ \E r \in Handlers : Finish(r)

Next ==
    \/ Startup
    \/ Advance
    \/ Serve

Spec == Init /\ [][Next]_vars


(***************************************************************************)
(* Specification of the server with the SIGTERM handler, under the         *)
(* assumption that every pending credential fetch and backend call         *)
(* settles: axios.post carries timeout: 60000, and the promise of the      *)
(* credential fetch is taken to resolve or reject.  The clock stands       *)
(* still: it decides only between the two branches of the cache check,     *)
(* and both are taken (a miss on the empty cache, a hit after a store).    *)
(***************************************************************************)
\* process.on('SIGTERM', () => process.exit(0)): the process ends at once,
\* whatever requests are in flight
Sigterm ==
    /\ phase = "listening"
    /\ phase' = "exited"
    /\ exitCode' = 0
    /\ UNCHANGED <<config, tried, googleAuth, authCache, clock, issued, req, lastStore, invalidated>>

\* the promise request r awaits settles
Settles(r) ==
    \/ \E tok \in 0..MaxTokens, w \in BOOLEAN : TokenFetched(r, tok, w)
    \/ \E err \in ErrStatuses : TokenFetchFailed(r, err)
    \/ \E resp \in ServerResponses : BackendReplied(r, resp)
    \/ \E err \in ErrStatuses : BackendFailed(r, err)

NextLive ==
    \/ Startup
    \/ Serve
    \/ Sigterm

SpecLive == Init /\ [][NextLive]_vars /\ \A r \in Handlers : WF_vars(Settles(r))

(***************************************************************************)
(* Specification of start-up alone, over every configuration value.        *)
(***************************************************************************)
InitStartup == InitWith(ConfigValues)

NextStartup ==
    \/ Startup
    \/ Advance

SpecStartup == InitStartup /\ [][NextStartup]_vars

(***************************************************************************)
(* Specification of model resolution alone, over every model name.         *)
(***************************************************************************)
ModelNames == DOMAIN MODEL_MAP \cup ObjectPrototypeKeys \cup {"unknown-model", UndefinedModel}

InitResolve ==
    /\ phase = "listening"
    /\ exitCode = -1
    /\ config = Absent
    /\ tried = InitAttempts(Absent)
    /\ googleAuth = GoogleAuth("adc")
    /\ authCache = EmptyCache
    /\ clock = StartTime
    /\ issued = 0
    /\ req = [r \in Handlers |-> IdleReq]
    /\ lastStore = NoStore
    /\ invalidated = FALSE

\* const claudeModel = MODEL_MAP[model] || 'claude-sonnet-4' on a request
\* carrying model
ResolveModel(r, model) ==
    /\ req[r].pc = "idle"
    /\ req' = [req EXCEPT ![r] =
                 [IdleReq EXCEPT !.pc = "resolved", !.messages = "array", !.model = model,
                                 !.claudeModel = Resolve(model)]]
    /\ UNCHANGED <<phase, exitCode, config, tried, googleAuth, authCache, clock, issued, lastStore, invalidated>>

ResolveReturn(r) ==
    /\ req[r].pc = "resolved"
    /\ req' = [req EXCEPT ![r] = IdleReq]
    /\ UNCHANGED <<phase, exitCode, config, tried, googleAuth, authCache, clock, issued, lastStore, invalidated>>

NextResolve ==
    \/ \E r \in Handlers, model \in ModelNames : ResolveModel(r, model)
    \/ \E r \in Handlers : ResolveReturn(r)

SpecResolve == InitResolve /\ [][NextResolve]_vars


(***************************************************************************)
(* Specification of the translation of one request and of its response,    *)
(* over every model name, requested max_tokens and backend response.       *)
(***************************************************************************)
FirstHandler == CHOOSE r \in Handlers : \A q \in Handlers : r <= q

\* req.body.max_tokens: missing, or a number
MaxTokensValues ==
    {None} \cup {Some(v) : v \in {0, 1, DefaultMaxTokens, MaxTokensCeiling - 1,
                                  MaxTokensCeiling, MaxTokensCeiling + 1, 100000}}

\* response.data.content and response.data.usage
Contents ==
    {NoContent, Blocks(<<>>), Blocks(<<TextBlock("Hello")>>), Blocks(<<TextBlock("")>>),
     Blocks(<<OtherBlock>>), Blocks(<<TextBlock("Hello"), TextBlock("again")>>),
     Blocks(<<OtherBlock, TextBlock("Hello")>>)}
Usages ==
    {NoUsage} \cup {Usage(i, o) : i \in {None, Some(0), Some(12)}, o \in {None, Some(0), Some(7)}}
Responses == [content : Contents, usage : Usages]

NextTranslate ==
    \/ \E model \in ModelNames, mt \in MaxTokensValues :
          Receive(FirstHandler, "array", model, mt, TRUE)
    \/ \E tok \in 1..MaxTokens : TokenFetched(FirstHandler, tok, TRUE)
    \/ \E resp \in Responses : BackendReplied(FirstHandler, resp)
    \/ Finish(FirstHandler)

SpecTranslate == InitResolve /\ [][NextTranslate]_vars

(***************************************************************************)
(* Specification of getAuthToken under more concurrent callers: requests   *)
(* that pass validation, credential fetches and backend calls that         *)
(* succeed.                                                                *)
(***************************************************************************)
InitRefresh ==
    /\ phase = "listening"
    /\ exitCode = -1
    /\ config = Absent
    /\ tried = InitAttempts(Absent)
    /\ googleAuth = GoogleAuth("adc")
    /\ authCache = EmptyCache
    /\ clock = StartTime
    /\ issued = 0
    /\ req = [r \in Callers |-> IdleReq]
    /\ lastStore = NoStore
    /\ invalidated = FALSE

NextRefresh ==
    \/ Advance
    \/ \E r \in Callers, model \in RequestModels, mt \in RequestMaxTokens :
          Receive(r, "array", model, mt, TRUE)
    \/ \E r \in Callers, tok \in 1..MaxTokens : TokenFetched(r, tok, TRUE)
    \/ \E r \in Callers, resp \in ServerResponses : BackendReplied(r, resp)
    \/ \E r \in Callers : Finish(r)

SpecRefresh == InitRefresh /\ [][NextRefresh]_vars

(***************************************************************************)
(* Properties.                                                             *)
(***************************************************************************)
\* handler r starts a getAuthToken call in this step
CallStarts(r) ==
    /\ req[r].pc = "idle"
    /\ req'[r].pc \in {"awaitToken", "awaitBackend", "done"}
    /\ req'[r].failure # "validation"

\* the time a stored token is served from the cache: 55 minutes less 5
ServeMs == ExpiryMs - BufferMs

\* C1, as stated: once a token has been fetched and stored at time T (the
\* time of the store), a getAuthToken call at T' < T + 50 minutes returns that
\* token without a fetch, and a call at T' >= T + 50 minutes fetches, as long
\* as the cache has not been invalidated in between.  (The token a call
\* returned is the one its request carries to the backend.)
C1_StoredAtT ==
    [][\A r \in Handlers :
          CallStarts(r) /\ lastStore.live =>
             IF clock < lastStore.at + ServeMs
             THEN /\ req'[r].fetches = 0
                  /\ req'[r].pc = "awaitBackend" => req'[r].token = lastStore.tok
             ELSE req'[r].fetches = 1]_vars

\* C1, amended: T is the time the storing getAuthToken call captured when it
\* started.  While the cache holds that call's store (neither invalidated nor
\* overwritten by another refresh), a call at T' < T + 50 minutes returns
\* that token without a fetch and a call at T' >= T + 50 minutes fetches.
C1_StartedAtT ==
    [][\A r \in Handlers :
          CallStarts(r) /\ lastStore.live =>
             IF clock < lastStore.started + ServeMs
             THEN /\ req'[r].fetches = 0
                  /\ req'[r].pc = "awaitBackend" => req'[r].token = lastStore.tok
             ELSE req'[r].fetches = 1]_vars

\* a request served from the cache some time after the token was stored,
\* the store itself having come later than the start of the storing call
C1_Witness ==
    \E r \in Handlers :
        /\ req[r].pc = "awaitBackend"
        /\ req[r].fetches = 0
        /\ lastStore.live
        /\ req[r].token = lastStore.tok
        /\ lastStore.at > lastStore.started
        /\ clock > lastStore.at

\* C2: after a backend 401 has cleared the cache, the next getAuthToken call
\* that starts performs a credential fetch, under every interleaving.
C2_FetchAfterInvalidate ==
    [][\A r \in Handlers : CallStarts(r) /\ invalidated => req'[r].fetches = 1]_vars

\* handler r's backend call fails with status err in this step
BackendFails(r, err) ==
    /\ req[r].pc = "awaitBackend"
    /\ req'[r].pc = "done"
    /\ req'[r].failure = "backend"
    /\ req'[r].err = err

\* C3: a backend 401 clears the cache whatever it holds (token null, expiry
\* 0), and the caller gets status 500 with type "proxy_error" and code 401.
C3_Clear401 ==
    [][\A r \in Handlers :
          BackendFails(r, 401) =>
             /\ authCache'.token = NoToken
             /\ authCache'.expiry = 0
             /\ req'[r].status = 500
             /\ req'[r].body.shape = "error_object"
             /\ req'[r].body.type = "proxy_error"
             /\ req'[r].body.code = 401]_vars

\* a request that was served from the cache, answered after a backend 401,
\* the cache cleared
C3_Witness ==
    \E r \in Handlers :
        /\ req[r].pc = "done"
        /\ req[r].failure = "backend"
        /\ req[r].err = 401
        /\ req[r].fetches = 0
        /\ req[r].status = 500
        /\ authCache = EmptyCache

\* C4: a request whose messages are missing or no array is answered 400 with
\* an error body; no backend call, no credential fetch, cache unchanged.
C4_InvalidMessages ==
    [][\A r \in Handlers :
          /\ req[r].pc = "idle"
          /\ req'[r].pc # "idle"
          /\ req'[r].messages \in {"absent", "string", "object"}
          => /\ req'[r].pc = "done"
             /\ req'[r].status = 400
             /\ req'[r].body.shape \in {"error_string", "error_object"}
             /\ req'[r].calls = 0
             /\ req'[r].fetches = 0
             /\ authCache' = authCache]_vars

\* a non-array messages value rejected while the cache holds a token
C4_Witness ==
    \E r \in Handlers :
        /\ req[r].pc = "done"
        /\ req[r].messages = "string"
        /\ req[r].status = 400
        /\ authCache.token # NoToken

\* handler r's credential fetch fails in this step
CredentialFails(r) ==
    /\ req[r].pc = "awaitToken"
    /\ req'[r].pc = "done"
    /\ req'[r].failure = "credential"

\* C5: a failed credential fetch is propagated, answered with the 500
\* envelope, and leaves the cache as it was.
C5_FailureLeavesCache ==
    [][\A r \in Handlers :
          CredentialFails(r) =>
             /\ authCache' = authCache
             /\ req'[r].status = 500
             /\ req'[r].body.shape = "error_object"]_vars

\* C6: a request makes at most one credential fetch and at most one backend
\* call; a failed backend call ends the request with no further call.
C6_NoRetry ==
    \A r \in Handlers :
        /\ req[r].fetches <= 1
        /\ req[r].calls <= 1
        /\ req[r].failure = "backend" => req[r].pc = "done" /\ req[r].calls = 1

\* a request that fetched, called the backend, got 401 and was answered
C6_Witness ==
    \E r \in Handlers :
        /\ req[r].pc = "done"
        /\ req[r].failure = "backend"
        /\ req[r].err = 401
        /\ req[r].fetches = 1
        /\ req[r].calls = 1
        /\ req[r].status = 500

\* the code field of the envelope for a failure carrying status err
EchoedCode(err) == IF err # NoStatus THEN err ELSE 500

\* C7, as stated: every failure, validation included, is answered with the
\* envelope {error: {message, type: "proxy_error", code}}.
C7_EnvelopeAlways ==
    \A r \in Handlers :
        req[r].pc = "done" /\ req[r].failure # "none" =>
           /\ req[r].body.shape = "error_object"
           /\ req[r].body.type = "proxy_error"
           /\ req[r].body.code = EchoedCode(req[r].err)
           /\ req[r].status = IF req[r].failure = "validation" THEN 400 ELSE 500

\* C7, amended: credential, translation and backend failures are answered
\* 500 with the envelope, code echoing the failure's HTTP status or 500;
\* malformed messages are answered 400 with {error: <string>}, which has no
\* type and no code.
C7_EnvelopeOn500 ==
    \A r \in Handlers :
        req[r].pc = "done" /\ req[r].failure # "none" =>
           IF req[r].failure = "validation"
           THEN /\ req[r].status = 400
                /\ req[r].body.shape = "error_string"
           ELSE /\ req[r].status = 500
                /\ req[r].body.shape = "error_object"
                /\ req[r].body.type = "proxy_error"
                /\ req[r].body.code = EchoedCode(req[r].err)

\* one request answered for an upstream 503, the other for a failure without
\* a status
C7_Witness ==
    \E r, q \in Handlers :
        /\ req[r].pc = "done" /\ req[r].failure = "backend" /\ req[r].err = 503
        /\ req[r].body.code = 503
        /\ req[q].pc = "done" /\ req[q].failure = "translation"
        /\ req[q].body.code = 500

\* configuration values carrying a service-account object, plain or base64
ServiceAccountConfigs == {Str("plain", "sa_object", FALSE), Str("base64", "sa_object", FALSE)}

\* C8: with no usable credential material in the configuration, the signing
\* client is built from the ambient default credentials, with the scope and
\* project id the configured branch uses.
C8_FallbackToADC ==
    phase \in {"initialized", "listening"} /\ config \notin ServiceAccountConfigs =>
       /\ googleAuth.set
       /\ googleAuth.source = "adc"
       /\ googleAuth.scopes = GoogleAuth("configured").scopes
       /\ googleAuth.projectId = GoogleAuth("configured").projectId

\* the server listening after a configured value that parses but is no
\* service account
C8_Witness ==
    /\ phase = "listening"
    /\ config = Str("base64", "user_object", FALSE)
    /\ googleAuth.source = "adc"

\* C9: requests are handled only while listening, which comes only after
\* initializeGoogleAuth has set googleAuth; a throwing initialization ends in
\* exit code 1 without the server ever listening.
C9_ListenAfterInit ==
    /\ [](/\ (phase = "listening" \/ \E r \in Handlers : req[r].pc # "idle") => googleAuth.set
          /\ phase \in {"failed", "exited"} => \A r \in Handlers : req[r].pc = "idle"
          /\ phase = "exited" => exitCode = 1)
    /\ [][(phase \in {"failed", "exited"}) => (phase' \in {"failed", "exited"})]_vars
    /\ [][(phase' = "listening" /\ phase # "listening") => (phase = "initialized")]_vars

\* a handler inside getAuthToken, the server listening
C9_Witness ==
    /\ phase = "listening"
    /\ googleAuth.set
    /\ \E r \in Handlers : req[r].pc = "awaitToken"

\* C10: a model name that is no key of the table resolves to
\* "claude-sonnet-4", a key to its entry.
C10_ResolveDefault ==
    \A r \in Handlers :
        req[r].pc = "resolved" =>
           req[r].claudeModel =
              IF req[r].model \in DOMAIN MODEL_MAP THEN MODEL_MAP[req[r].model] ELSE DefaultModel

\* C11: in every successful reply the model field equals the model name the
\* request carried, not the resolved backend name, while the backend URL of
\* the same request is built from the resolved backend name.
C11_EchoModel ==
    \A r \in Handlers :
        req[r].status = 200 =>
            /\ req[r].body.model = req[r].model
            /\ Resolve(req[r].model) # req[r].model => req[r].body.model # Resolve(req[r].model)
            /\ req[r].url = VertexUrl(Resolve(req[r].model))

\* a successful reply to a request whose model resolves to another name
C11_Witness ==
    \E r \in Handlers :
        /\ req[r].status = 200
        /\ req[r].model = "gpt-4"
        /\ req[r].body.model = "gpt-4"
        /\ req[r].url = VertexUrl("claude-sonnet-4")

\* C12: the max_tokens sent to the backend never exceeds 8192: a requested
\* value above 8192 is sent as 8192, a requested value of at most 8192 is
\* sent unchanged, and a request without max_tokens is sent 4096.
C12_MaxTokensClamped ==
    \A r \in Handlers :
        req[r].calls = 1 =>
            LET asked == req[r].max_tokens
                sent == req[r].payload.max_tokens
            IN /\ sent <= 8192
               /\ asked.present /\ asked.value > 8192 => sent = 8192
               /\ asked.present /\ asked.value <= 8192 => sent = asked.value
               /\ ~asked.present => sent = 4096

\* a backend call for a request that asked for more than the ceiling
C12_Witness ==
    \E r \in Handlers :
        /\ req[r].pc = "awaitBackend"
        /\ req[r].max_tokens = Some(100000)
        /\ req[r].payload.max_tokens = 8192

\* the backend's counter c of the usage object u, a missing one as 0
CounterOrZero(u, c) == IF u.present /\ u[c].present THEN u[c].value ELSE 0

\* C13: in every successful reply usage.total_tokens is the sum of
\* prompt_tokens and completion_tokens, which are the backend's input and
\* output token counts, a missing counter or a missing usage object
\* counting as 0.
C13_TotalIsSum ==
    \A r \in Handlers :
        req[r].status = 200 =>
            LET u == req[r].body.usage
                backend == req[r].claudeResponse.usage
            IN /\ u.total_tokens = u.prompt_tokens + u.completion_tokens
               /\ u.prompt_tokens = CounterOrZero(backend, "input_tokens")
               /\ u.completion_tokens = CounterOrZero(backend, "output_tokens")

\* a successful reply to a backend response whose usage lacks the output
\* counter
C13_Witness ==
    \E r \in Handlers :
        /\ req[r].status = 200
        /\ req[r].claudeResponse.usage = Usage(Some(12), None)
        /\ req[r].body.usage = [prompt_tokens |-> 12, completion_tokens |-> 0, total_tokens |-> 12]

\* the reply of request r is a well-formed chat.completion sent with 200
WellFormed200(r) ==
    /\ req[r].status = 200
    /\ req[r].replies = 1
    /\ req[r].body.shape = "completion"
    /\ req[r].body.role = "assistant"

\* the backend's response to request r carries no content block
NoContentBlock(r) ==
    \/ ~req[r].claudeResponse.content.present
    \/ Len(req[r].claudeResponse.content.blocks) = 0

\* the first content block of the backend's response to r carries a text
FirstBlockHasText(r) ==
    /\ ~NoContentBlock(r)
    /\ req[r].claudeResponse.content.blocks[1].text.present

\* C17, as stated: on success the assistant content equals the text of the
\* backend's first content block whenever that block with a text is present,
\* and is the placeholder only when no content block is present; either way
\* the reply is a well-formed 200.
C17_PlaceholderOnlyWithoutBlock ==
    \A r \in Handlers :
        req[r].pc = "done" /\ req[r].failure = "none" =>
            /\ WellFormed200(r)
            /\ FirstBlockHasText(r) =>
                  req[r].body.content = req[r].claudeResponse.content.blocks[1].text.value
            /\ req[r].body.content = Placeholder => NoContentBlock(r)

\* C17, amended: the content is the first block's text whenever that text
\* is a non-empty string, and the placeholder in every other case: no
\* content, an empty list, a first block without text, or a first block
\* whose text is the empty string.
C17_FirstTextOrPlaceholder ==
    \A r \in Handlers :
        req[r].pc = "done" /\ req[r].failure = "none" =>
            /\ WellFormed200(r)
            /\ IF FirstBlockHasText(r) /\ req[r].claudeResponse.content.blocks[1].text.value # ""
               THEN req[r].body.content = req[r].claudeResponse.content.blocks[1].text.value
               ELSE req[r].body.content = "No response generated"

\* a successful reply with the placeholder although the backend's response
\* has content blocks, the second of them with a text
C17_Witness ==
    \E r \in Handlers :
        /\ WellFormed200(r)
        /\ req[r].claudeResponse.content = Blocks(<<OtherBlock, TextBlock("Hello")>>)
        /\ req[r].body.content = "No response generated"

\* handler r's refresh completes with a token in this step
RefreshCompletes(r) ==
    /\ req[r].pc = "awaitToken"
    /\ req'[r].pc # "awaitToken"
    /\ req'[r].failure # "credential"

\* C14: when several requests refresh concurrently, every caller whose
\* refresh completes receives the token its own fetch just returned (the
\* one the credential endpoint handed out last), the cache then holds that
\* token with the expiry computed by that same refresh, and once no refresh
\* is in flight the cache holds the token of the last refresh that wrote,
\* paired with that refresh's expiry, unless a 401 has cleared it since.
C14_LastWriterWins ==
    /\ [][\A r \in Handlers :
             RefreshCompletes(r) =>
                /\ req'[r].pc = "awaitBackend" => req'[r].token = issued'
                /\ authCache'.token = issued'
                /\ authCache'.token # NoToken
                /\ authCache'.expiry = req[r].now + 55 * 60 * 1000]_vars
    /\ [](lastStore.live /\ (\A r \in Handlers : req[r].pc # "awaitToken") =>
             authCache = [token |-> lastStore.tok,
                          expiry |-> lastStore.started + 55 * 60 * 1000])

\* two concurrent refreshes have both completed with different tokens; the
\* cache holds the token of the one that wrote last, whose call started
\* before the other's
C14_Witness ==
    \E r, q \in Handlers :
        /\ req[r].pc = "awaitBackend" /\ req[r].fetches = 1
        /\ req[q].pc = "awaitBackend" /\ req[q].fetches = 1
        /\ req[r].token # req[q].token
        /\ lastStore.live
        /\ authCache.token = req[q].token
        /\ authCache.expiry = lastStore.started + ExpiryMs
        /\ lastStore.started < lastStore.at

\* the callers whose credential fetch is in flight and who found the token
\* the cache still holds lapsed
LapsedFetches ==
    {r \in DOMAIN req : req[r].pc = "awaitToken" /\ req[r].now >= authCache.expiry - 300000}

\* C15, as stated: whatever the number of concurrent callers that find the
\* cached token lapsed, they perform at most one fetch more than the single
\* fetch needed.
C15_AtMostOneExtra ==
    authCache.token # NoToken => Cardinality(LapsedFetches) <= 2

\* C15, amended: every caller that finds the token lapsed performs a fetch
\* of its own, whether or not other fetches are in flight, so N concurrent
\* callers perform N fetches.
C15_OneFetchPerCaller ==
    /\ [][\A r \in DOMAIN req :
             /\ CallStarts(r)
             /\ authCache.token # NoToken
             /\ clock >= authCache.expiry - 300000
             => /\ req'[r].pc = "awaitToken"
                /\ req'[r].fetches = 1]_vars
    /\ [](\A r \in DOMAIN req : req[r].pc = "awaitToken" => req[r].fetches = 1)

\* three callers have found the same token lapsed and each has a fetch in
\* flight
C15_Witness ==
    /\ authCache.token # NoToken
    /\ Cardinality(LapsedFetches) = 3
    /\ \A r \in LapsedFetches : req[r].fetches = 1

\* the parses of the configured string among the attempts made
OnConfigured == {i \in DOMAIN tried : tried[i].strategy \in {"direct", "base64"}}

\* a parse of the configured string produced a service-account object
YieldsServiceAccount ==
    \E i \in OnConfigured : tried[i].value.ok /\ tried[i].value.type = "service_account"

\* C16: once initializeGoogleAuth has run on a configured value, the plain
\* JSON parse was tried first; the base64 decode-then-parse was tried only
\* after the plain parse failed; and whenever one of the two produced an
\* object of type "service_account", the signing client was built from that
\* configured credential and from no other, with the cloud-platform scope
\* and the configured project id (unless the constructor threw, which ends
\* the start-up without a client).
C16_StrategyOrder ==
    phase # "starting" =>
        /\ ConfigAttempted(config) => tried # <<>> /\ tried[1].strategy = "direct"
        /\ \A i \in OnConfigured :
              tried[i].strategy = "base64" =>
                 i = 2 /\ tried[1].strategy = "direct" /\ ~tried[1].value.ok
        /\ YieldsServiceAccount =>
              \/ phase \in {"failed", "exited"} /\ ~googleAuth.set
              \/ /\ googleAuth.set
                 /\ googleAuth.source = "configured"
                 /\ googleAuth.scopes = "https://www.googleapis.com/auth/cloud-platform"
                 /\ googleAuth.projectId = ProjectId

\* the server is up on a base64-encoded service account: the plain parse
\* failed, the decoded text parsed, and the client signs with it
C16_Witness ==
    /\ phase = "listening"
    /\ config = Str("base64", "sa_object", FALSE)
    /\ Len(tried) = 2
    /\ tried[2].strategy = "base64"
    /\ tried[2].value.type = "service_account"
    /\ googleAuth.source = "configured"

\* C18: the cache is cleared only when a backend call is answered with 401;
\* a request that fails in any other way, succeeds or is rejected with 400
\* leaves the cache unchanged, and the only other writer is a refresh in
\* getAuthToken that received a token.
C18_ClearOnlyOn401 ==
    [][authCache' # authCache =>
          \/ \E r \in Handlers : BackendFails(r, 401) /\ authCache' = EmptyCache
          \/ \E r \in Handlers :
                /\ RefreshCompletes(r)
                /\ authCache' = [token |-> issued', expiry |-> req[r].now + ExpiryMs]]_vars

\* C19, as stated: in every reachable state the cache is not torn: the
\* token is null exactly when the expiry is 0, and when a token is held the
\* expiry is the time the getAuthToken call that stored it captured at its
\* start plus 55 minutes, so never later than 55 minutes after the token
\* was issued.  (A token that the cache already held, received at
\* lastStore.at, was issued no later than that.)
C19_WithinIssueWindow ==
    /\ [](/\ authCache.token = NoToken <=> authCache.expiry = 0
          /\ authCache.token # NoToken =>
                authCache.expiry = lastStore.started + 55 * 60 * 1000)
    /\ [][\A r \in Handlers :
             /\ RefreshCompletes(r)
             /\ lastStore.live
             /\ authCache'.token = lastStore.tok
             => authCache'.expiry <= lastStore.at + 55 * 60 * 1000]_vars

\* C19, amended: the cache is not torn, and when a token is held the expiry
\* is the time the storing getAuthToken call captured at its start plus 55
\* minutes, hence no later than 55 minutes after that call received the
\* token (whenever the token was first issued).
C19_NeverTorn ==
    /\ authCache.token = NoToken <=> authCache.expiry = 0
    /\ authCache.token # NoToken =>
          /\ lastStore.live
          /\ lastStore.tok = authCache.token
          /\ authCache.expiry = lastStore.started + 55 * 60 * 1000
          /\ authCache.expiry <= lastStore.at + 55 * 60 * 1000

\* the cache holds a token stored by a call that started before its fetch
\* completed, while one request has been answered after a 401 and another
\* request's refresh is in flight
C19_Witness ==
    /\ authCache.token # NoToken
    /\ lastStore.live
    /\ lastStore.started < lastStore.at
    /\ \E r, q \in Handlers :
          /\ req[r].pc = "awaitToken"
          /\ req[q].pc = "done" /\ req[q].err = 401

\* request r is past validation and has not been answered
InFlight(r) == req[r].pc \in {"awaitToken", "awaitBackend"}

\* a request is answered once, with 200, 400 or 500, and no reply is sent
\* before the handler is done
OneReply ==
    \A r \in Handlers :
        /\ req[r].pc = "done" => req[r].replies = 1 /\ req[r].status \in {200, 400, 500}
        /\ req[r].pc # "done" => req[r].replies = 0 /\ req[r].status = 0

====
